---- MODULE Spec2Model ----
(***************************************************************************)
(* Model of convert_png.py: the RGB888 -> RGB565 quantizer, the converter  *)
(* convert_png_to_rgb565 (decode, collect, buffered binary write through a *)
(* `with` block, report, catch-all handler) and the command-line entry.    *)
(***************************************************************************)
EXTENDS Integers, Sequences, FiniteSets, TLC

VARIABLES
    pc,             \* position of the process in the script
    argc,           \* len(sys.argv)
    inputKind,      \* what lies at input_path: "missing", "corrupt", "ok"
    inPrintable,    \* input_path can be encoded by stdout
    outPrintable,   \* output_path can be encoded by stdout
    img,            \* decoded image: [w, h, px], px[y+1][x+1] = <<r, g, b>>
    rgb565_data,    \* the list built by the pixel loop
    idx,            \* number of entries of rgb565_data already passed to f.write
    outfile,        \* what lies at output_path: [exists, bytes]
    outfile0,       \* what lay at output_path when the process started
    buf,            \* bytes accepted by f.write, not yet on disk
    handle,         \* the output file object: "none", "open", "closed"
    exc,            \* exception in flight or handled: "none" or its class
    ret,            \* convert_png_to_rgb565's return: "none", "True", "False"
    out,            \* messages printed to stdout, in order
    reportedPixels, \* pixel count of the "Wrote ..." message, -1 before it
    reportedBytes,  \* byte count of the "Wrote ..." message, -1 before it
    uncaught,       \* an exception left the script as a traceback
    exitCode,       \* process exit status, -1 while running
    qpc, qr, qg, qb, qout   \* a direct call of rgb888_to_rgb565(qr, qg, qb)

vars == << pc, argc, inputKind, inPrintable, outPrintable, img, rgb565_data,
           idx, outfile, outfile0, buf, handle, exc, ret, out,
           reportedPixels, reportedBytes, uncaught, exitCode,
           qpc, qr, qg, qb, qout >>

convVars == << pc, argc, inputKind, inPrintable, outPrintable, img,
               rgb565_data, idx, outfile, outfile0, buf, handle, exc, ret,
               out, reportedPixels, reportedBytes, uncaught, exitCode >>

quantVars == << qpc, qr, qg, qb, qout >>

----------------------------------------------------------------------------
(* Bounds and program constants *)

MaxPixels == 4
MaxArgc == 4
ChannelMax == 255
U16Max == 65535

----------------------------------------------------------------------------
(* Integer helpers: Python's << and | on non-negative ints *)

RECURSIVE BitOr(_, _)
BitOr(a, b) ==
    IF a = 0 THEN b
    ELSE IF b = 0 THEN a
    ELSE (IF a % 2 = 1 \/ b % 2 = 1 THEN 1 ELSE 0)
         + 2 * BitOr(a \div 2, b \div 2)

Shl(x, n) == x * 2^n

----------------------------------------------------------------------------
(* Quantizer *)

rgb888_to_rgb565_div256(r, g, b) ==
    LET r5 == (r * 31) \div 256
        g6 == (g * 63) \div 256
        b5 == (b * 31) \div 256
    IN  BitOr(BitOr(Shl(r5, 11), Shl(g6, 5)), b5)

rgb888_to_rgb565_scale32(r, g, b) ==
    LET r5 == (r * 32) \div 255
        g6 == (g * 63) \div 255
        b5 == (b * 31) \div 255
    IN  BitOr(BitOr(Shl(r5, 11), Shl(g6, 5)), b5)

rgb888_to_rgb565_bgr(r, g, b) ==
    LET r5 == (r * 31) \div 255
        g6 == (g * 63) \div 255
        b5 == (b * 31) \div 255
    IN  BitOr(BitOr(Shl(b5, 11), Shl(g6, 5)), r5)

rgb888_to_rgb565(r, g, b) ==
    LET r5 == (r * 31) \div 255
        g6 == (g * 63) \div 255
        b5 == (b * 31) \div 255
    IN  BitOr(BitOr(Shl(r5, 11), Shl(g6, 5)), b5)

----------------------------------------------------------------------------
(* struct.pack *)

CanPackH(v) == v >= 0 /\ v <= U16Max

PackH(v) == << v % 256, v \div 256 >>

PackHH_big(a, b) == << a \div 256, a % 256, b \div 256, b % 256 >>

PackHH(a, b) == PackH(a) \o PackH(b)

----------------------------------------------------------------------------
(* Inputs *)

Red == << 255, 0, 0 >>
Green == << 0, 255, 0 >>
Mid == << 128, 64, 200 >>
Palette == { Red, Green, Mid }

Coords(w, h) == (0 .. w - 1) \X (0 .. h - 1)

Dims == { d \in (1 .. MaxPixels) \X (1 .. MaxPixels) : d[1] * d[2] <= MaxPixels }

SmallImages ==
    UNION { { [w |-> d[1], h |-> d[2], px |-> p] :
                p \in [1 .. d[2] -> [1 .. d[1] -> Palette]] } : d \in Dims }

WideImage == [w |-> U16Max + 1, h |-> 1,
              px |-> << [x \in 1 .. U16Max + 1 |-> Mid] >>]

TallImage == [w |-> 1, h |-> U16Max + 1,
              px |-> [y \in 1 .. U16Max + 1 |-> << Green >>]]

\* img.getpixel((x, y))
GetPixel(image, x, y) == image.px[y + 1][x + 1]

Images == SmallImages \cup { WideImage, TallImage }

NoImage == [w |-> 0, h |-> 0, px |-> << >>]

NoFile == [exists |-> FALSE, bytes |-> << >>]

OldFile == [exists |-> TRUE, bytes |-> << 1, 0, 1, 0, 31, 0 >>]

ExceptionClasses ==
    { "FileNotFoundError", "UnidentifiedImageError", "UnicodeEncodeError",
      "OSError", "struct.error" }

----------------------------------------------------------------------------
(* Pieces of convert_png_to_rgb565 *)

\* the nested pixel loop: y outer, x inner, append per pixel
CollectPixels_colmajor(image) ==
    [i \in 1 .. image.w * image.h |->
        LET x == (i - 1) \div image.h
            y == (i - 1) % image.h
            p == GetPixel(image, x, y)
        IN  rgb888_to_rgb565(p[1], p[2], p[3])]

CollectPixels(image) ==
    [i \in 1 .. image.w * image.h |->
        LET x == (i - 1) % image.w
            y == (i - 1) \div image.w
            p == GetPixel(image, x, y)
        IN  rgb888_to_rgb565(p[1], p[2], p[3])]

\* `except Exception`
Caught_fileNotFound(e) == e = "FileNotFoundError"

Caught(e) == e \in ExceptionClasses

\* f.write(data) on the buffered writer: the bytes are appended to the
\* buffer, or the buffer is flushed to disk first; a failing flush leaves a
\* strict prefix of the buffer on disk and raises OSError
WriteOutcomes(data) ==
    { [bytes |-> outfile.bytes, buf |-> buf \o data, ok |-> TRUE] }
    \cup
    ( IF buf = << >> THEN { }
      ELSE { [bytes |-> outfile.bytes \o buf, buf |-> data, ok |-> TRUE] }
           \cup
           { [bytes |-> outfile.bytes \o SubSeq(buf, 1, k),
              buf |-> SubSeq(buf, k + 1, Len(buf)),
              ok |-> FALSE] : k \in 0 .. Len(buf) - 1 } )

\* f.close(): flush the buffer, then close the descriptor; a failing flush
\* leaves a strict prefix of the buffer on disk and raises OSError, and the
\* descriptor is closed all the same
CloseOutcomes ==
    { [bytes |-> outfile.bytes \o buf, ok |-> TRUE] }
    \cup
    { [bytes |-> outfile.bytes \o SubSeq(buf, 1, k), ok |-> FALSE] :
        k \in 0 .. Len(buf) - 1 }

----------------------------------------------------------------------------
(* Initial states *)

QuantIdle == qpc = "idle" /\ qr = 0 /\ qg = 0 /\ qb = 0 /\ qout = -1

ConvStart ==
    /\ pc = "main"
    /\ rgb565_data = << >>
    /\ idx = 0
    /\ outfile = outfile0
    /\ buf = << >>
    /\ handle = "none"
    /\ exc = "none"
    /\ ret = "none"
    /\ out = << >>
    /\ reportedPixels = -1
    /\ reportedBytes = -1
    /\ uncaught = FALSE
    /\ exitCode = -1

Init ==
    /\ argc \in 1 .. MaxArgc
    /\ outfile0 \in { NoFile, OldFile }
    /\ IF argc = 3
       THEN /\ inputKind \in { "missing", "corrupt", "ok" }
            /\ inPrintable \in BOOLEAN
            /\ outPrintable \in BOOLEAN
            /\ IF inputKind = "ok" THEN img \in Images ELSE img = NoImage
       ELSE /\ inputKind = "missing"
            /\ inPrintable = TRUE
            /\ outPrintable = TRUE
            /\ img = NoImage
    /\ ConvStart
    /\ QuantIdle

----------------------------------------------------------------------------
(* The script, line by line *)

\* lines 65-70
CheckArgs ==
    /\ pc = "main"
    /\ IF argc # 3
       THEN /\ out' = Append(out, "Usage")
            /\ exitCode' = 1
            /\ pc' = "exited"
       ELSE /\ pc' = "decode"
            /\ UNCHANGED << out, exitCode >>
    /\ UNCHANGED << argc, inputKind, inPrintable, outPrintable, img,
                    rgb565_data, idx, outfile, outfile0, buf, handle, exc,
                    ret, reportedPixels, reportedBytes, uncaught >>
    /\ UNCHANGED quantVars

\* the decode with the output opened first
Decode_openFirst ==
    /\ pc = "decode"
    /\ outfile' = [exists |-> TRUE, bytes |-> << >>]
    /\ IF inputKind = "missing"
       THEN exc' = "FileNotFoundError" /\ pc' = "except"
       ELSE IF inputKind = "corrupt"
       THEN exc' = "UnidentifiedImageError" /\ pc' = "except"
       ELSE exc' = exc /\ pc' = "print_dims"
    /\ UNCHANGED << argc, inputKind, inPrintable, outPrintable, img,
                    rgb565_data, idx, outfile0, buf, handle, ret,
                    out, reportedPixels, reportedBytes, uncaught, exitCode >>
    /\ UNCHANGED quantVars

\* lines 29-30: Image.open(input_path).convert("RGB"); img.size
Decode ==
    /\ pc = "decode"
    /\ IF inputKind = "missing"
       THEN exc' = "FileNotFoundError" /\ pc' = "except"
       ELSE IF inputKind = "corrupt"
       THEN exc' = "UnidentifiedImageError" /\ pc' = "except"
       ELSE exc' = exc /\ pc' = "print_dims"
    /\ UNCHANGED << argc, inputKind, inPrintable, outPrintable, img,
                    rgb565_data, idx, outfile, outfile0, buf, handle, ret,
                    out, reportedPixels, reportedBytes, uncaught, exitCode >>
    /\ UNCHANGED quantVars

\* line 32: print(f"Converting {input_path}: ...")
PrintDims ==
    /\ pc = "print_dims"
    /\ IF inPrintable
       THEN out' = Append(out, "Converting") /\ exc' = exc /\ pc' = "collect"
       ELSE out' = out /\ exc' = "UnicodeEncodeError" /\ pc' = "except"
    /\ UNCHANGED << argc, inputKind, inPrintable, outPrintable, img,
                    rgb565_data, idx, outfile, outfile0, buf, handle, ret,
                    reportedPixels, reportedBytes, uncaught, exitCode >>
    /\ UNCHANGED quantVars

\* lines 35-40
Collect ==
    /\ pc = "collect"
    /\ rgb565_data' = CollectPixels(img)
    /\ pc' = "open"
    /\ UNCHANGED << argc, inputKind, inPrintable, outPrintable, img, idx,
                    outfile, outfile0, buf, handle, exc, ret, out,
                    reportedPixels, reportedBytes, uncaught, exitCode >>
    /\ UNCHANGED quantVars

\* line 43: open(output_path, "wb") creates or truncates, or raises OSError
OpenOutput ==
    /\ pc = "open"
    /\ \/ /\ outfile' = [exists |-> TRUE, bytes |-> << >>]
          /\ handle' = "open"
          /\ pc' = "header"
          /\ exc' = exc
       \/ /\ exc' = "OSError"
          /\ pc' = "except"
          /\ UNCHANGED << outfile, handle >>
    /\ UNCHANGED << argc, inputKind, inPrintable, outPrintable, img,
                    rgb565_data, idx, outfile0, buf, ret, out,
                    reportedPixels, reportedBytes, uncaught, exitCode >>
    /\ UNCHANGED quantVars

\* line 44: f.write(struct.pack("<HH", width, height))
WriteHeader ==
    /\ pc = "header"
    /\ IF CanPackH(img.w) /\ CanPackH(img.h)
       THEN \E o \in WriteOutcomes(PackHH(img.w, img.h)) :
                /\ outfile' = [outfile EXCEPT !.bytes = o.bytes]
                /\ buf' = o.buf
                /\ IF o.ok
                   THEN exc' = exc /\ pc' = "pixels"
                   ELSE exc' = "OSError" /\ pc' = "with_exit"
       ELSE /\ exc' = "struct.error"
            /\ pc' = "with_exit"
            /\ UNCHANGED << outfile, buf >>
    /\ UNCHANGED << argc, inputKind, inPrintable, outPrintable, img,
                    rgb565_data, idx, outfile0, handle, ret, out,
                    reportedPixels, reportedBytes, uncaught, exitCode >>
    /\ UNCHANGED quantVars

\* lines 45-46: one iteration of the write loop, or its end
WritePixel ==
    /\ pc = "pixels"
    /\ IF idx < Len(rgb565_data)
       THEN LET pixel == rgb565_data[idx + 1] IN
            IF CanPackH(pixel)
            THEN \E o \in WriteOutcomes(PackH(pixel)) :
                    /\ outfile' = [outfile EXCEPT !.bytes = o.bytes]
                    /\ buf' = o.buf
                    /\ IF o.ok
                       THEN idx' = idx + 1 /\ exc' = exc /\ pc' = "pixels"
                       ELSE idx' = idx /\ exc' = "OSError"
                            /\ pc' = "with_exit"
            ELSE /\ exc' = "struct.error"
                 /\ pc' = "with_exit"
                 /\ UNCHANGED << outfile, buf, idx >>
       ELSE /\ pc' = "with_exit"
            /\ UNCHANGED << outfile, buf, idx, exc >>
    /\ UNCHANGED << argc, inputKind, inPrintable, outPrintable, img,
                    rgb565_data, outfile0, handle, ret, out,
                    reportedPixels, reportedBytes, uncaught, exitCode >>
    /\ UNCHANGED quantVars

\* the block closed by hand, f.flush() then f.close(): a failing flush skips
\* the close
ExitWith_flushSkipsClose ==
    /\ pc = "with_exit"
    /\ \E o \in CloseOutcomes :
          /\ outfile' = [outfile EXCEPT !.bytes = o.bytes]
          /\ IF o.ok
             THEN /\ buf' = << >>
                  /\ handle' = "closed"
                  /\ exc' = exc
                  /\ pc' = IF exc = "none" THEN "report" ELSE "except"
             ELSE /\ buf' = buf
                  /\ handle' = handle
                  /\ exc' = "OSError"
                  /\ pc' = "except"
    /\ UNCHANGED << argc, inputKind, inPrintable, outPrintable, img,
                    rgb565_data, idx, outfile0, ret, out,
                    reportedPixels, reportedBytes, uncaught, exitCode >>
    /\ UNCHANGED quantVars

\* line 43, leaving the `with` block: f.__exit__ closes the file whether or
\* not the body raised
ExitWith ==
    /\ pc = "with_exit"
    /\ \E o \in CloseOutcomes :
          /\ outfile' = [outfile EXCEPT !.bytes = o.bytes]
          /\ buf' = << >>
          /\ handle' = "closed"
          /\ IF o.ok
             THEN /\ exc' = exc
                  /\ pc' = IF exc = "none" THEN "report" ELSE "except"
             ELSE /\ exc' = "OSError"
                  /\ pc' = "except"
    /\ UNCHANGED << argc, inputKind, inPrintable, outPrintable, img,
                    rgb565_data, idx, outfile0, ret, out,
                    reportedPixels, reportedBytes, uncaught, exitCode >>
    /\ UNCHANGED quantVars

\* lines 48-55 and 61: the "Wrote ..." message, the snippet, return True
Report ==
    /\ pc = "report"
    /\ IF outPrintable
       THEN /\ out' = Append(out, "Wrote")
            /\ reportedPixels' = Len(rgb565_data)
            /\ reportedBytes' = Len(rgb565_data) * 2
            /\ ret' = "True"
            /\ pc' = "returned"
            /\ exc' = exc
       ELSE /\ exc' = "UnicodeEncodeError"
            /\ pc' = "except"
            /\ UNCHANGED << out, reportedPixels, reportedBytes, ret >>
    /\ UNCHANGED << argc, inputKind, inPrintable, outPrintable, img,
                    rgb565_data, idx, outfile, outfile0, buf, handle,
                    uncaught, exitCode >>
    /\ UNCHANGED quantVars

\* lines 57-59: except Exception as e: print(f"Error: {e}"); return False.
\* An exception the clause does not name leaves the script as a traceback.
Except ==
    /\ pc = "except"
    /\ IF Caught(exc)
       THEN /\ out' = Append(out, "Error")
            /\ ret' = "False"
            /\ pc' = "returned"
            /\ UNCHANGED << uncaught, exitCode >>
       ELSE /\ uncaught' = TRUE
            /\ exitCode' = 1
            /\ pc' = "exited"
            /\ UNCHANGED << out, ret >>
    /\ UNCHANGED << argc, inputKind, inPrintable, outPrintable, img,
                    rgb565_data, idx, outfile, outfile0, buf, handle, exc,
                    reportedPixels, reportedBytes >>
    /\ UNCHANGED quantVars

\* lines 72-76
MainExit ==
    /\ pc = "returned"
    /\ IF ret = "True"
       THEN out' = Append(out, "successful") /\ exitCode' = 0
       ELSE out' = Append(out, "failed") /\ exitCode' = 1
    /\ pc' = "exited"
    /\ UNCHANGED << argc, inputKind, inPrintable, outPrintable, img,
                    rgb565_data, idx, outfile, outfile0, buf, handle, exc,
                    ret, reportedPixels, reportedBytes, uncaught >>
    /\ UNCHANGED quantVars

Next ==
    \/ CheckArgs
    \/ Decode
    \/ PrintDims
    \/ Collect
    \/ OpenOutput
    \/ WriteHeader
    \/ WritePixel
    \/ ExitWith
    \/ Report
    \/ Except
    \/ MainExit

Spec == Init /\ [][Next]_vars

----------------------------------------------------------------------------
(* Direct calls of the quantizer *)

Samples == { 0, 1, 8, 9, 127, 128, 254, 255 }

Channel == 0 .. ChannelMax

ConvIdle ==
    /\ argc = 1
    /\ inputKind = "missing"
    /\ inPrintable = TRUE
    /\ outPrintable = TRUE
    /\ img = NoImage
    /\ outfile0 = NoFile
    /\ ConvStart

QInit ==
    /\ ConvIdle
    /\ qpc = "call"
    /\ qout = -1
    /\ \/ qr \in Channel /\ qg \in Samples /\ qb \in Samples
       \/ qr \in Samples /\ qg \in Channel /\ qb \in Samples
       \/ qr \in Samples /\ qg \in Samples /\ qb \in Channel

Quantize ==
    /\ qpc = "call"
    /\ qout' = rgb888_to_rgb565(qr, qg, qb)
    /\ qpc' = "done"
    /\ UNCHANGED << qr, qg, qb >>
    /\ UNCHANGED convVars

QNext == Quantize

QSpec == QInit /\ [][QNext]_vars

----------------------------------------------------------------------------
(* Properties *)

U16(b, i) == b[i] + 256 * b[i + 1]

\* the format of section 3: u16 width | u16 height | u16[width*height]
WellFormed(b) ==
    /\ Len(b) >= 4
    /\ Len(b) = 4 + 2 * U16(b, 1) * U16(b, 3)

Example == [w |-> 2, h |-> 1, px |-> << << Red, Green >> >>]

\* C1: for every (r,g,b) in 0..255 the quantizer's result has r*31 div 255
\* in bits 15-11, g*63 div 255 in bits 10-5 and b*31 div 255 in bits 4-0,
\* i.e. it is (r5 << 11) | (g6 << 5) | b5.
C1_QuantizeFormula ==
    qpc = "done" =>
        /\ qout \div 2048 = (qr * 31) \div 255
        /\ (qout \div 32) % 64 = (qg * 63) \div 255
        /\ qout % 32 = (qb * 31) \div 255

C1_Witness == qpc = "done" /\ qr = 200 /\ qg = 127 /\ qb = 254 /\ qout = 50174

\* C2: after a successful conversion of a W x H image the output file is
\* 4 + 2*W*H bytes long, bytes 0..1 decode (little-endian) to W and bytes
\* 2..3 to H.
C2_LengthAndHeader ==
    ret = "True" =>
        /\ outfile.exists
        /\ Len(outfile.bytes) = 4 + 2 * img.w * img.h
        /\ U16(outfile.bytes, 1) = img.w
        /\ U16(outfile.bytes, 3) = img.h

C2_Witness ==
    /\ ret = "True"
    /\ img.w = 3
    /\ img.h = 1
    /\ Len(outfile.bytes) = 10
    /\ outfile0 = OldFile

\* C3: after a successful conversion the two bytes at offset
\* 4 + 2*(y*W + x) are the little-endian encoding of the quantized pixel
\* (x,y), and the 2x1 image [red, green] gives 02 00 01 00 00 F8 E0 07.
C3_RowMajorPayload ==
    ret = "True" =>
        /\ \A c \in Coords(img.w, img.h) :
              LET o == 4 + 2 * (c[2] * img.w + c[1])
                  p == GetPixel(img, c[1], c[2])
                  q == rgb888_to_rgb565(p[1], p[2], p[3])
              IN  /\ o + 2 <= Len(outfile.bytes)
                  /\ outfile.bytes[o + 1] = q % 256
                  /\ outfile.bytes[o + 2] = q \div 256
        /\ img = Example =>
              outfile.bytes = << 2, 0, 1, 0, 0, 248, 224, 7 >>

C3_Witness ==
    /\ ret = "True"
    /\ img.w = 2
    /\ img.h = 2
    /\ GetPixel(img, 1, 0) = Red
    /\ GetPixel(img, 0, 1) = Mid
    /\ SubSeq(outfile.bytes, 7, 10) = << 0, 248, 248, 121 >>

\* C4: with no file at the input path the converter returns False and the
\* output path is as it was: still absent, or still holding its old bytes.
C4_MissingInput ==
    (argc = 3 /\ inputKind = "missing") =>
        /\ outfile = outfile0
        /\ ret # "True"
        /\ pc \in { "returned", "exited" } => ret = "False"

C4_Witness ==
    /\ argc = 3
    /\ inputKind = "missing"
    /\ ret = "False"
    /\ outfile0 = OldFile
    /\ outfile = OldFile

\* C5: the process exits 0 exactly when the conversion succeeded and 1 when
\* the argument count is wrong or the conversion failed; every exception
\* raised in the converter is caught, printed and turned into exit code 1,
\* none leaves the script uncaught.
C5_ExitCodes ==
    /\ ~uncaught
    /\ pc = "exited" =>
          /\ exitCode \in { 0, 1 }
          /\ exitCode = 0 <=> (argc = 3 /\ ret = "True")
          /\ exitCode = 1 <=> (argc # 3 \/ ret = "False")
    /\ (exc # "none" /\ pc \in { "returned", "exited" }) =>
          /\ ret = "False"
          /\ \E i \in 1 .. Len(out) : out[i] = "Error"
          /\ pc = "exited" => exitCode = 1

C5_Witness ==
    /\ pc = "exited"
    /\ exc = "OSError"
    /\ handle = "closed"
    /\ ret = "False"
    /\ exitCode = 1
    /\ out = << "Converting", "Error", "failed" >>

\* C6: on success the reported pixel count is W*H and the reported byte
\* count is the number of bytes written to the output file.
C6_ReportedBytes ==
    ret = "True" =>
        /\ reportedPixels = img.w * img.h
        /\ reportedBytes = Len(outfile.bytes)

\* C7: once the converter has returned, with True or False, the output file
\* handle it opened is closed.
C7_HandleReleased == ret # "none" => handle # "open"

C7_Witness ==
    /\ ret = "False"
    /\ handle = "closed"
    /\ exc = "OSError"
    /\ idx = 1
    /\ Len(rgb565_data) > 1

\* C8: the quantizer's result lies in 0..65535; (0,0,0) gives 0 and
\* (255,255,255) gives 0xFFFF.
C8_SixteenBits ==
    qpc = "done" =>
        /\ qout \in 0 .. 65535
        /\ (qr = 0 /\ qg = 0 /\ qb = 0) => qout = 0
        /\ (qr = 255 /\ qg = 255 /\ qb = 255) => qout = 65535

C8_Witness == qpc = "done" /\ qr = 255 /\ qg = 255 /\ qb = 255 /\ qout = 65535

\* C9: a single channel at 255 fills its own field: red 0xF800, green
\* 0x07E0, blue 0x001F.
C9_PrimaryColours ==
    qpc = "done" =>
        /\ (qr = 255 /\ qg = 0 /\ qb = 0) => qout = 63488
        /\ (qr = 0 /\ qg = 255 /\ qb = 0) => qout = 2016
        /\ (qr = 0 /\ qg = 0 /\ qb = 255) => qout = 31

C9_Witness == qpc = "done" /\ qr = 0 /\ qg = 255 /\ qb = 0 /\ qout = 2016

\* C10: whenever the converter returns False after having opened the output
\* path, the bytes left there are not a well-formed output file.
C10_NoValidFileOnFailure ==
    (ret = "False" /\ handle # "none") => ~WellFormed(outfile.bytes)

====
